---- MODULE Spec2Model ----
(***************************************************************************)
(* Model of aimakerspace/text_utils.py: TextFileLoader,                    *)
(* CharacterTextSplitter, MultiSizeTextSplitter and                        *)
(* SmallCharacterTextSplitter.                                             *)
(*                                                                         *)
(* A document (Python str) is a sequence of one-character strings, a list  *)
(* of chunks is a sequence of documents, and a dict is the sequence of its *)
(* [key, value] entries in insertion order.  Each behaviour is one program *)
(* run: one object is constructed and then its methods are called.         *)
(***************************************************************************)
EXTENDS Integers, Sequences, FiniteSets, TLC

VARIABLES
    obj,      \* the object constructed by the run (NoObject before)
    call,     \* the latest call: [op, args]
    ret,      \* what the latest call returned (NoValue if it raised)
    raised,   \* the exception the latest call raised, or "none"
    loads     \* the number of load_documents calls made on the loader

vars == <<obj, call, ret, raised, loads>>

----------------------------------------------------------------------------
(* Bounds of the model *)

MaxLen == 3       \* longest small document
MaxDocs == 2      \* longest list of documents given to split_texts
MaxWindow == 3    \* largest chunk_size / chunk_overlap tried
MaxConfigs == 2   \* longest chunk_configs list
MaxMultiWindow == 2   \* largest chunk_size / chunk_overlap in such a list
MaxLoads == 3     \* load_documents calls on one loader

Chars == {"a", "b"}

Min(a, b) == IF a < b THEN a ELSE b
Max(a, b) == IF a > b THEN a ELSE b

SeqsUpTo(S, n) == UNION {[1..k -> S] : k \in 0..n}

SmallDocs == SeqsUpTo(Chars, MaxLen)

\* (chunk_size, chunk_overlap) pairs tried, valid and invalid
Pairs == (0..MaxWindow) \X (-1..MaxWindow)

\* the pairs tried in chunk_configs lists
MultiPairs == (1..MaxMultiWindow) \X (0..MaxMultiWindow)

\* the pairs the specification's scenarios name
ScenarioPairs == {<<1000, 500>>, <<500, 500>>, <<100, 200>>}

Alphabet == <<"a", "b", "c", "d", "e", "f", "g">>

\* long documents: n times 'a', and n characters of a repeating pattern
\* whose period makes the windows at different offsets differ
Repeat(n) == [i \in 1..n |-> "a"]
Pattern(n) == [i \in 1..n |-> Alphabet[((i - 1) % 7) + 1]]
LongLens == {0, 1, 499, 500, 1000, 1200, 1500, 2001}
LongDocs == {Repeat(n) : n \in LongLens} \cup {Pattern(n) : n \in LongLens}

----------------------------------------------------------------------------
(* Python values *)

NoObject == [cls |-> "None"]
NoValue == [cls |-> "NoValue"]

\* text[i:j] of Python, for any integers i and j
PySlice(text, i, j) ==
    LET n == Len(text)
        lo == IF i < 0 THEN Max(i + n, 0) ELSE Min(i, n)
        hi == IF j < 0 THEN Max(j + n, 0) ELSE Min(j, n)
    IN SubSeq(text, lo + 1, hi)

\* for i in range(i, stop, step): chunks.append(text[i : i + size]), step > 0
RECURSIVE splitLoop(_, _, _, _, _, _)
splitLoop(text, size, step, stop, i, chunks) ==
    IF i < stop
    THEN splitLoop(text, size, step, stop, i + step,
                   Append(chunks, PySlice(text, i, i + size)))
    ELSE chunks

----------------------------------------------------------------------------
(* CharacterTextSplitter *)

CheckOffByOne(chunk_size, chunk_overlap) == chunk_size > chunk_overlap + 1

\* the assertion of __init__
ChunkSizeAssertion(chunk_size, chunk_overlap) == chunk_size > chunk_overlap

CharacterTextSplitter(chunk_size, chunk_overlap) ==
    [cls |-> "CharacterTextSplitter",
     chunk_size |-> chunk_size,
     chunk_overlap |-> chunk_overlap]

SplitShortRange(self, text) ==
    splitLoop(text, self.chunk_size,
              self.chunk_size - self.chunk_overlap, Len(text) - 1, 0, <<>>)

SplitAtLeastOnce(self, text) ==
    IF text = <<>> THEN << <<>> >>
    ELSE splitLoop(text, self.chunk_size,
                   self.chunk_size - self.chunk_overlap, Len(text), 0, <<>>)

SplitWideStride(self, text) ==
    splitLoop(text, self.chunk_size,
              self.chunk_size - self.chunk_overlap + 1, Len(text), 0, <<>>)

SplitPadded(self, text) ==
    splitLoop(text, self.chunk_size + 1,
              self.chunk_size - self.chunk_overlap, Len(text), 0, <<>>)

CharacterTextSplitter_split(self, text) ==
    splitLoop(text, self.chunk_size,
              self.chunk_size - self.chunk_overlap, Len(text), 0, <<>>)

RECURSIVE extendLoop(_, _, _, _)
extendLoop(self, texts, k, chunks) ==
    IF k > Len(texts) THEN chunks
    ELSE extendLoop(self, texts, k + 1,
                    chunks \o CharacterTextSplitter_split(self, texts[k]))

SplitTextsOverwrite(self, texts) ==
    IF texts = <<>> THEN <<>>
    ELSE CharacterTextSplitter_split(self, texts[Len(texts)])

CharacterTextSplitter_split_texts(self, texts) ==
    extendLoop(self, texts, 1, <<>>)

----------------------------------------------------------------------------
(* MultiSizeTextSplitter *)

\* an optional list argument: None, or a list
None == [none |-> TRUE, list |-> <<>>]
List(l) == [none |-> FALSE, list |-> l]

\* the list __init__ substitutes for chunk_configs = None
DefaultChunkConfigs == <<<<1000, 500>>, <<500, 250>>>>

\* the loop of __init__: one CharacterTextSplitter per pair; the first
\* failing assertion ends the construction
RECURSIVE buildSplitters(_, _, _)
buildSplitters(chunk_configs, k, splitters) ==
    IF k > Len(chunk_configs)
    THEN [raised |-> "none", splitters |-> splitters]
    ELSE IF ~ChunkSizeAssertion(chunk_configs[k][1], chunk_configs[k][2])
         THEN [raised |-> "AssertionError", splitters |-> splitters]
         ELSE buildSplitters(chunk_configs, k + 1,
                  Append(splitters,
                         CharacterTextSplitter(chunk_configs[k][1],
                                               chunk_configs[k][2])))

MultiSizeTextSplitter(chunk_configs) ==
    LET configs == IF chunk_configs.none THEN DefaultChunkConfigs
                   ELSE chunk_configs.list
        built == buildSplitters(configs, 1, <<>>)
    IN [raised |-> built.raised,
        object |-> IF built.raised = "none"
                   THEN [cls |-> "MultiSizeTextSplitter",
                         splitters |-> built.splitters]
                   ELSE NoValue]

RECURSIVE allChunksLoop(_, _, _, _)
allChunksLoop(splitters, text, k, all_chunks) ==
    IF k > Len(splitters) THEN all_chunks
    ELSE allChunksLoop(splitters, text, k + 1,
             all_chunks \o CharacterTextSplitter_split(splitters[k], text))

RECURSIVE allChunksPrepend(_, _, _, _)
allChunksPrepend(splitters, text, k, all_chunks) ==
    IF k > Len(splitters) THEN all_chunks
    ELSE allChunksPrepend(splitters, text, k + 1,
             CharacterTextSplitter_split(splitters[k], text) \o all_chunks)

MultiSplitReversed(self, text) ==
    allChunksPrepend(self.splitters, text, 1, <<>>)

MultiSizeTextSplitter_split(self, text) ==
    allChunksLoop(self.splitters, text, 1, <<>>)

RECURSIVE multiExtendLoop(_, _, _, _)
multiExtendLoop(self, texts, k, all_chunks) ==
    IF k > Len(texts) THEN all_chunks
    ELSE multiExtendLoop(self, texts, k + 1,
             all_chunks \o MultiSizeTextSplitter_split(self, texts[k]))

MultiSizeTextSplitter_split_texts(self, texts) ==
    multiExtendLoop(self, texts, 1, <<>>)

\* the f-string f"{splitter.chunk_size}_{splitter.chunk_overlap}"
size_key(splitter) ==
    ToString(splitter.chunk_size) \o "_" \o ToString(splitter.chunk_overlap)

\* d[key] = value on a dict kept as its entries in insertion order: an
\* existing key keeps its place and takes the new value
DictSet(d, key, value) ==
    IF \E i \in 1..Len(d) : d[i].key = key
    THEN [i \in 1..Len(d) |->
             IF d[i].key = key THEN [key |-> key, value |-> value] ELSE d[i]]
    ELSE Append(d, [key |-> key, value |-> value])

RECURSIVE bySizeLoop(_, _, _, _)
bySizeLoop(splitters, text, k, chunks_by_size) ==
    IF k > Len(splitters) THEN chunks_by_size
    ELSE bySizeLoop(splitters, text, k + 1,
             DictSet(chunks_by_size, size_key(splitters[k]),
                     CharacterTextSplitter_split(splitters[k], text)))

RECURSIVE bySizeAppendLoop(_, _, _, _)
bySizeAppendLoop(splitters, text, k, chunks_by_size) ==
    IF k > Len(splitters) THEN chunks_by_size
    ELSE bySizeAppendLoop(splitters, text, k + 1,
             DictSet(chunks_by_size, ToString(splitters[k].chunk_size),
                     CharacterTextSplitter_split(splitters[k], text)))

SplitBySizeKeyedByWindow(self, text) ==
    bySizeAppendLoop(self.splitters, text, 1, <<>>)

MultiSizeTextSplitter_split_by_size(self, text) ==
    bySizeLoop(self.splitters, text, 1, <<>>)

----------------------------------------------------------------------------
(* The file system the loader reads, which no call changes *)

Directories == {"data", "data/sub", "empty", "plays.txt"}

\* os.walk(path): the (root, files) pairs in traversal order
Walk(path) ==
    CASE path = "data" ->
           <<[root |-> "data",
              files |-> <<"KingLear.txt", "README.md", "notes.txt">>],
             [root |-> "data/sub", files |-> <<"more.txt", "image.png">>]>>
      [] path = "data/sub" ->
           <<[root |-> "data/sub", files |-> <<"more.txt", "image.png">>]>>
      [] path = "empty" -> <<[root |-> "empty", files |-> <<>>]>>
      [] path = "plays.txt" ->
           <<[root |-> "plays.txt", files |-> <<"Hamlet.txt">>]>>
      [] OTHER -> <<>>

\* the decoded content of each regular file
FileText ==
    [p \in {"data/KingLear.txt", "data/README.md", "data/notes.txt",
            "data/sub/more.txt", "data/sub/image.png",
            "plays.txt/Hamlet.txt", "LICENSE"} |->
        CASE p = "data/KingLear.txt" -> <<"a", "b", "a">>
          [] p = "data/notes.txt" -> <<>>
          [] p = "data/sub/more.txt" -> <<"b">>
          [] p = "plays.txt/Hamlet.txt" -> <<"a", "a">>
          [] OTHER -> <<"b", "b">>]

Paths == Directories \cup DOMAIN FileText \cup {"missing.txt", "nowhere"}

isdir(path) == path \in Directories
isfile(path) == path \in DOMAIN FileText
endswith(s, suffix) ==
    /\ Len(s) >= Len(suffix)
    /\ SubSeq(s, Len(s) - Len(suffix) + 1, Len(s)) = suffix
join(root, file) == root \o "/" \o file

----------------------------------------------------------------------------
(* TextFileLoader *)

TextFileLoader(path) ==
    [cls |-> "TextFileLoader", documents |-> <<>>, path |-> path]

load_file(self) ==
    [self EXCEPT !.documents = Append(@, FileText[self.path])]

\* the inner loop of load_directory over the files of one root
RECURSIVE loadFiles(_, _, _, _)
loadFiles(root, files, k, documents) ==
    IF k > Len(files) THEN documents
    ELSE loadFiles(root, files, k + 1,
             IF endswith(files[k], ".txt")
             THEN Append(documents, FileText[join(root, files[k])])
             ELSE documents)

RECURSIVE walkLoop(_, _, _)
walkLoop(walk, k, documents) ==
    IF k > Len(walk) THEN documents
    ELSE walkLoop(walk, k + 1,
                  loadFiles(walk[k].root, walk[k].files, 1, documents))

load_directory(self) ==
    [self EXCEPT !.documents = walkLoop(Walk(self.path), 1, @)]

load(self) ==
    IF isdir(self.path)
    THEN [raised |-> "none", self |-> load_directory(self)]
    ELSE IF isfile(self.path) /\ endswith(self.path, ".txt")
         THEN [raised |-> "none", self |-> load_file(self)]
         ELSE [raised |-> "ValueError", self |-> self]

load_documents(self) ==
    LET r == load(self)
    IN [raised |-> r.raised,
        self |-> r.self,
        value |-> IF r.raised = "none" THEN r.self.documents ELSE NoValue]

----------------------------------------------------------------------------
(* The calls of a run *)

\* no call is in progress
Idle == [op |-> "none", args |-> <<>>]

Init ==
    /\ obj = NoObject
    /\ call = Idle
    /\ ret = NoValue
    /\ raised = "none"
    /\ loads = 0

IsCharacterTextSplitter(o) ==
    o.cls \in {"CharacterTextSplitter", "SmallCharacterTextSplitter"}

\* CharacterTextSplitter(chunk_size, chunk_overlap)
NewCharacterTextSplitter(chunk_size, chunk_overlap) ==
    /\ call = Idle
    /\ obj = NoObject
    /\ call' = [op |-> "CharacterTextSplitter",
                args |-> <<chunk_size, chunk_overlap>>]
    /\ IF ChunkSizeAssertion(chunk_size, chunk_overlap)
       THEN /\ obj' = CharacterTextSplitter(chunk_size, chunk_overlap)
            /\ ret' = obj'
            /\ raised' = "none"
       ELSE /\ obj' = NoObject
            /\ ret' = NoValue
            /\ raised' = "AssertionError"
    /\ UNCHANGED loads

DefaultChunkSize == 2000
DefaultChunkOverlap == 1000

\* CharacterTextSplitter()
NewCharacterTextSplitterDefault ==
    NewCharacterTextSplitter(DefaultChunkSize, DefaultChunkOverlap)

SmallChunkSize == 500
SmallChunkOverlap == 250

\* SmallCharacterTextSplitter()
NewSmallCharacterTextSplitter ==
    /\ call = Idle
    /\ obj = NoObject
    /\ call' = [op |-> "SmallCharacterTextSplitter", args |-> <<>>]
    /\ IF ChunkSizeAssertion(SmallChunkSize, SmallChunkOverlap)
       THEN /\ obj' = [CharacterTextSplitter(SmallChunkSize, SmallChunkOverlap)
                          EXCEPT !.cls = "SmallCharacterTextSplitter"]
            /\ ret' = obj'
            /\ raised' = "none"
       ELSE /\ obj' = NoObject
            /\ ret' = NoValue
            /\ raised' = "AssertionError"
    /\ UNCHANGED loads

\* MultiSizeTextSplitter(chunk_configs), chunk_configs a list or None
NewMultiSizeTextSplitter(chunk_configs) ==
    /\ call = Idle
    /\ obj = NoObject
    /\ call' = [op |-> "MultiSizeTextSplitter", args |-> chunk_configs]
    /\ LET r == MultiSizeTextSplitter(chunk_configs)
       IN /\ raised' = r.raised
          /\ ret' = r.object
          /\ obj' = IF r.raised = "none" THEN r.object ELSE NoObject
    /\ UNCHANGED loads

NewTextFileLoader(path) ==
    /\ call = Idle
    /\ obj = NoObject
    /\ call' = [op |-> "TextFileLoader", args |-> path]
    /\ obj' = TextFileLoader(path)
    /\ ret' = obj'
    /\ raised' = "none"
    /\ UNCHANGED loads

Split(text) ==
    /\ call = Idle
    /\ IsCharacterTextSplitter(obj)
    /\ call' = [op |-> "CharacterTextSplitter.split", args |-> text]
    /\ ret' = CharacterTextSplitter_split(obj, text)
    /\ raised' = "none"
    /\ UNCHANGED <<obj, loads>>

SplitTexts(texts) ==
    /\ call = Idle
    /\ IsCharacterTextSplitter(obj)
    /\ call' = [op |-> "CharacterTextSplitter.split_texts", args |-> texts]
    /\ ret' = CharacterTextSplitter_split_texts(obj, texts)
    /\ raised' = "none"
    /\ UNCHANGED <<obj, loads>>

MultiSplit(text) ==
    /\ call = Idle
    /\ obj.cls = "MultiSizeTextSplitter"
    /\ call' = [op |-> "MultiSizeTextSplitter.split", args |-> text]
    /\ ret' = MultiSizeTextSplitter_split(obj, text)
    /\ raised' = "none"
    /\ UNCHANGED <<obj, loads>>

MultiSplitTexts(texts) ==
    /\ call = Idle
    /\ obj.cls = "MultiSizeTextSplitter"
    /\ call' = [op |-> "MultiSizeTextSplitter.split_texts", args |-> texts]
    /\ ret' = MultiSizeTextSplitter_split_texts(obj, texts)
    /\ raised' = "none"
    /\ UNCHANGED <<obj, loads>>

SplitBySize(text) ==
    /\ call = Idle
    /\ obj.cls = "MultiSizeTextSplitter"
    /\ call' = [op |-> "MultiSizeTextSplitter.split_by_size", args |-> text]
    /\ ret' = MultiSizeTextSplitter_split_by_size(obj, text)
    /\ raised' = "none"
    /\ UNCHANGED <<obj, loads>>

LoadDocuments ==
    /\ call = Idle
    /\ obj.cls = "TextFileLoader"
    /\ loads < MaxLoads
    /\ loads' = loads + 1
    /\ call' = [op |-> "TextFileLoader.load_documents", args |-> <<>>]
    /\ LET r == load_documents(obj)
       IN /\ obj' = r.self
          /\ ret' = r.value
          /\ raised' = r.raised

\* the caller takes the result (or the exception) of the latest call
Return ==
    /\ call # Idle
    /\ call' = Idle
    /\ ret' = NoValue
    /\ raised' = "none"
    /\ UNCHANGED <<obj, loads>>

ConfigLists == SeqsUpTo(MultiPairs, MaxConfigs)

Next ==
    \/ \E p \in Pairs \cup ScenarioPairs : NewCharacterTextSplitter(p[1], p[2])
    \/ NewCharacterTextSplitterDefault
    \/ NewSmallCharacterTextSplitter
    \/ \E chunk_configs \in {List(l) : l \in ConfigLists} \cup {None} :
          NewMultiSizeTextSplitter(chunk_configs)
    \/ \E path \in Paths : NewTextFileLoader(path)
    \/ \E text \in SmallDocs : Split(text)
    \/ \E texts \in SeqsUpTo(SmallDocs, MaxDocs) : SplitTexts(texts)
    \/ \E text \in SmallDocs : MultiSplit(text)
    \/ \E texts \in SeqsUpTo(SmallDocs, MaxDocs) : MultiSplitTexts(texts)
    \/ \E text \in SmallDocs : SplitBySize(text)
    \/ LoadDocuments
    \/ Return

Spec == Init /\ [][Next]_vars

\* the runs of the specification's scenarios: the default and the named
\* configurations on long documents
ScenarioConfigLists == SeqsUpTo(ScenarioPairs, MaxConfigs)

NextScenario ==
    \/ \E p \in ScenarioPairs : NewCharacterTextSplitter(p[1], p[2])
    \/ NewCharacterTextSplitterDefault
    \/ NewSmallCharacterTextSplitter
    \/ \E chunk_configs \in {List(l) : l \in ScenarioConfigLists} \cup {None} :
          NewMultiSizeTextSplitter(chunk_configs)
    \/ \E text \in LongDocs : Split(text)
    \/ \E texts \in SeqsUpTo(LongDocs, MaxDocs) : SplitTexts(texts)
    \/ \E text \in LongDocs : MultiSplit(text)
    \/ \E texts \in SeqsUpTo(LongDocs, MaxDocs) : MultiSplitTexts(texts)
    \/ \E text \in LongDocs : SplitBySize(text)
    \/ Return

SpecScenario == Init /\ [][NextScenario]_vars

----------------------------------------------------------------------------
(* Helpers of the properties *)

RECURSIVE Concat(_)
Concat(seqs) ==
    IF seqs = <<>> THEN <<>> ELSE Head(seqs) \o Concat(Tail(seqs))

\* s without the elements that occurred earlier in it
RECURSIVE Distinct(_)
Distinct(s) ==
    IF s = <<>> THEN <<>>
    ELSE LET front == Distinct(SubSeq(s, 1, Len(s) - 1))
             last == s[Len(s)]
         IN IF \E i \in 1..Len(front) : front[i] = last
            THEN front ELSE Append(front, last)

CeilDiv(a, b) == (a + b - 1) \div b

\* d[from : to] for 0 <= from, read as an interval of offsets
Substring(d, from, to) == SubSeq(d, from + 1, Min(to, Len(d)))

\* the first chunk whole, then each later chunk without its first overlap
\* characters
RECURSIVE Reconstruct(_, _)
Reconstruct(chunks, overlap) ==
    IF chunks = <<>> THEN <<>>
    ELSE IF Len(chunks) = 1 THEN chunks[1]
    ELSE Reconstruct(SubSeq(chunks, 1, Len(chunks) - 1), overlap)
         \o SubSeq(chunks[Len(chunks)], overlap + 1, Len(chunks[Len(chunks)]))

OnSplit == call.op = "CharacterTextSplitter.split"
Stride == obj.chunk_size - obj.chunk_overlap

----------------------------------------------------------------------------
(* Properties *)

\* C1: constructing a CharacterTextSplitter with chunk_size <= chunk_overlap
\* raises and yields no splitter, with chunk_size > chunk_overlap it yields
\* the splitter; a MultiSizeTextSplitter construction fails as a whole when
\* any pair of its list, at any position, has chunk_size <= chunk_overlap.
C1_ConstructionRequiresWindowAboveOverlap ==
    /\ call.op = "CharacterTextSplitter" =>
          IF call.args[1] <= call.args[2]
          THEN raised = "AssertionError" /\ ret = NoValue /\ obj = NoObject
          ELSE /\ raised = "none"
               /\ obj = [cls |-> "CharacterTextSplitter",
                         chunk_size |-> call.args[1],
                         chunk_overlap |-> call.args[2]]
               /\ ret = obj
    /\ (call.op = "MultiSizeTextSplitter" /\ ~call.args.none) =>
          IF \E k \in 1..Len(call.args.list) :
                 call.args.list[k][1] <= call.args.list[k][2]
          THEN raised = "AssertionError" /\ ret = NoValue /\ obj = NoObject
          ELSE /\ raised = "none"
               /\ obj.cls = "MultiSizeTextSplitter"
               /\ Len(obj.splitters) = Len(call.args.list)
               /\ ret = obj

\* a two-pair list whose first pair is valid and whose second is not, refused
C1_Witness ==
    /\ call.op = "MultiSizeTextSplitter"
    /\ ~call.args.none
    /\ Len(call.args.list) = 2
    /\ call.args.list[1][1] > call.args.list[1][2]
    /\ call.args.list[2][1] <= call.args.list[2][2]
    /\ raised = "AssertionError"

\* C2: for a non-empty document d, split(d) has ceil(len(d) / stride) chunks
\* and its k-th chunk (from 0) is d[k*stride : min(k*stride + chunk_size,
\* len(d))].
C2_ChunkCountAndContent ==
    (OnSplit /\ Len(call.args) > 0) =>
        /\ Len(ret) = CeilDiv(Len(call.args), Stride)
        /\ \A k \in 0..(Len(ret) - 1) :
              ret[k + 1] = Substring(call.args, k * Stride,
                                     k * Stride + obj.chunk_size)

\* three or more overlapping chunks, the last one cut by the document's end
C2_Witness ==
    /\ OnSplit
    /\ obj.chunk_overlap > 0
    /\ Len(ret) >= 3
    /\ Len(ret[Len(ret)]) < obj.chunk_size
    /\ \E i, j \in 1..Len(call.args) : call.args[i] # call.args[j]

\* C3 as stated: split of the empty document returns one chunk, the empty
\* string.
C3_EmptyDocumentOneEmptyChunk ==
    (OnSplit /\ call.args = <<>>) => ret = << <<>> >>

\* C3 as amended: split of the empty document returns no chunk at all.
C3_EmptyDocumentNoChunk ==
    (OnSplit /\ call.args = <<>>) => ret = <<>>

C3_Witness == OnSplit /\ call.args = <<>> /\ obj.chunk_overlap = 1

\* C4 as stated: every chunk except the last has length chunk_size and the
\* last has length len(d) - last_offset, at most chunk_size (checked for
\* chunk_size > chunk_overlap >= 0).
C4_OnlyLastChunkShort ==
    (OnSplit /\ obj.chunk_overlap >= 0 /\ Len(ret) > 0) =>
        /\ \A k \in 1..(Len(ret) - 1) : Len(ret[k]) = obj.chunk_size
        /\ Len(ret[Len(ret)]) = Len(call.args) - (Len(ret) - 1) * Stride
        /\ Len(ret[Len(ret)]) <= obj.chunk_size

\* C4 as amended: the chunk at offset k*stride has length chunk_size when
\* that window fits in the document and len(d) - k*stride otherwise, which
\* can be the case of several trailing chunks; for chunk_overlap >= 0 the
\* last chunk has length len(d) - last_offset <= chunk_size.
C4_ChunkLengths ==
    OnSplit =>
        /\ \A k \in 0..(Len(ret) - 1) :
              Len(ret[k + 1]) =
                  IF k * Stride + obj.chunk_size <= Len(call.args)
                  THEN obj.chunk_size
                  ELSE Len(call.args) - k * Stride
        /\ (obj.chunk_overlap >= 0 /\ Len(ret) > 0) =>
              /\ Len(ret[Len(ret)])
                     = Len(call.args) - (Len(ret) - 1) * Stride
              /\ Len(ret[Len(ret)]) <= obj.chunk_size

\* two chunks shorter than chunk_size in one result
C4_Witness ==
    /\ OnSplit
    /\ obj.chunk_overlap >= 0
    /\ Len(ret) >= 3
    /\ Len(ret[Len(ret) - 1]) < obj.chunk_size
    /\ Len(ret[1]) = obj.chunk_size

\* C5: for chunk_size > chunk_overlap >= 0, the first chunk followed by each
\* later chunk without its first chunk_overlap characters is the document.
C5_ReconstructsDocument ==
    (OnSplit /\ obj.chunk_overlap >= 0) =>
        Reconstruct(ret, obj.chunk_overlap) = call.args

\* a result with a chunk shorter than the overlap, which contributes nothing
C5_Witness ==
    /\ OnSplit
    /\ obj.chunk_overlap >= 2
    /\ Len(ret) >= 3
    /\ Len(ret[Len(ret)]) < obj.chunk_overlap
    /\ \E i, j \in 1..Len(call.args) : call.args[i] # call.args[j]

OnScenarioSplit ==
    /\ OnSplit
    /\ obj.chunk_size = 1000
    /\ obj.chunk_overlap = 500
    /\ Len(call.args) = 1500

\* C6 as stated: (1000, 500) on 1500 characters gives exactly two chunks,
\* [0,1000) and [500,1500).
C6_TwoChunks ==
    OnScenarioSplit =>
        ret = <<Substring(call.args, 0, 1000), Substring(call.args, 500, 1500)>>

\* C6 as amended: (1000, 500) on 1500 characters gives exactly three chunks,
\* [0,1000), [500,1500) and [1000,1500), of lengths 1000, 1000 and 500.
C6_ThreeChunks ==
    OnScenarioSplit =>
        /\ ret = <<Substring(call.args, 0, 1000),
                   Substring(call.args, 500, 1500),
                   Substring(call.args, 1000, 1500)>>
        /\ <<Len(ret[1]), Len(ret[2]), Len(ret[3])>> = <<1000, 1000, 500>>

C6_Witness == OnScenarioSplit /\ call.args[2] = "b"

\* C7: for both splitters split_texts(docs) is the concatenation, in document
\* order, of split(d) for each d of docs.
C7_SplitTextsConcatenates ==
    /\ call.op = "CharacterTextSplitter.split_texts" =>
          ret = Concat([i \in 1..Len(call.args) |->
                           CharacterTextSplitter_split(obj, call.args[i])])
    /\ call.op = "MultiSizeTextSplitter.split_texts" =>
          ret = Concat([i \in 1..Len(call.args) |->
                           MultiSizeTextSplitter_split(obj, call.args[i])])

\* two different documents of several chunks each
C7_Witness ==
    /\ call.op = "CharacterTextSplitter.split_texts"
    /\ Len(call.args) = 2
    /\ call.args[1] # call.args[2]
    /\ Len(CharacterTextSplitter_split(obj, call.args[1])) >= 2
    /\ Len(CharacterTextSplitter_split(obj, call.args[2])) >= 2
    /\ Len(ret) >= 4

OnSplitBySize == call.op = "MultiSizeTextSplitter.split_by_size"

ExpectedEntry(splitter, text) ==
    [key |-> ToString(splitter.chunk_size) \o "_"
                 \o ToString(splitter.chunk_overlap),
     value |-> CharacterTextSplitter_split(splitter, text)]

\* C8 as stated: split_by_size has one entry per configured pair, repeated
\* pairs included, in list order, keyed "{chunk_size}_{chunk_overlap}" and
\* holding that pair's chunks.
C8_OneEntryPerConfiguredPair ==
    OnSplitBySize =>
        ret = [i \in 1..Len(obj.splitters) |->
                  ExpectedEntry(obj.splitters[i], call.args)]

\* C8 as amended: split_by_size has one entry per distinct configured pair,
\* in the order of the pairs' first occurrences, keyed
\* "{chunk_size}_{chunk_overlap}" and holding that pair's chunks.
C8_OneEntryPerDistinctPair ==
    OnSplitBySize =>
        /\ ret = [i \in 1..Len(Distinct(obj.splitters)) |->
                     ExpectedEntry(Distinct(obj.splitters)[i], call.args)]
        /\ \A i \in 1..Len(ret) :
              (Distinct(obj.splitters)[i].chunk_size = 2
                 /\ Distinct(obj.splitters)[i].chunk_overlap = 1)
              => ret[i].key = "2_1"

\* the same pair configured twice, with a non-empty document
C8_Witness ==
    /\ OnSplitBySize
    /\ Len(obj.splitters) = 2
    /\ obj.splitters[1] = obj.splitters[2]
    /\ Len(ret) = 1
    /\ Len(ret[1].value) >= 2

\* C9: MultiSizeTextSplitter.split(d) is the concatenation, in list order,
\* of each configured pair's CharacterTextSplitter.split(d); the splitters
\* are those of the list given, or of (1000, 500), (500, 250) without one.
C9_MultiSplitConcatenates ==
    /\ call.op = "MultiSizeTextSplitter.split" =>
          ret = Concat([i \in 1..Len(obj.splitters) |->
                           CharacterTextSplitter_split(obj.splitters[i],
                                                       call.args)])
    /\ (call.op = "MultiSizeTextSplitter" /\ raised = "none") =>
          LET pairs == IF call.args.none
                       THEN <<<<1000, 500>>, <<500, 250>>>>
                       ELSE call.args.list
          IN obj.splitters =
                 [i \in 1..Len(pairs) |->
                     [cls |-> "CharacterTextSplitter",
                      chunk_size |-> pairs[i][1],
                      chunk_overlap |-> pairs[i][2]]]

\* two different configurations whose chunks of the document differ
C9_Witness ==
    /\ call.op = "MultiSizeTextSplitter.split"
    /\ Len(obj.splitters) = 2
    /\ CharacterTextSplitter_split(obj.splitters[1], call.args)
         # CharacterTextSplitter_split(obj.splitters[2], call.args)
    /\ Len(ret) >= 3

\* the number of .txt files load reads for a path
RECURSIVE CountTxt(_)
CountTxt(files) ==
    IF files = <<>> THEN 0
    ELSE (IF endswith(Head(files), ".txt") THEN 1 ELSE 0) + CountTxt(Tail(files))

NumTextFiles(path) ==
    IF isdir(path)
    THEN CountTxt(Concat([i \in 1..Len(Walk(path)) |-> Walk(path)[i].files]))
    ELSE 1

\* C10: every successful load_documents call returns exactly one document
\* per text file of the path, however many calls were made before; a call
\* on a path that is neither a directory nor a .txt file raises and leaves
\* the document list as it was.
C10_OneDocumentPerFileOnEveryCall ==
    call.op = "TextFileLoader.load_documents" =>
        IF isdir(obj.path) \/ (isfile(obj.path) /\ endswith(obj.path, ".txt"))
        THEN raised = "none" /\ Len(ret) = NumTextFiles(obj.path)
        ELSE raised = "ValueError" /\ obj.documents = <<>>

====
